---- MODULE Spec2Model ----
(***************************************************************************)
(* Model of src/chdir.c: the Lua C function chdir_lua(L), which queries    *)
(* the process working directory with getcwd() into a static buffer,       *)
(* changes it with chdir(pathname) and returns either the previous         *)
(* directory (1 value) or nil, strerror(errno), errno (3 values).          *)
(*                                                                         *)
(* The operating system is modelled by a small filesystem: three           *)
(* directories (one of them nested so deep that its absolute path does not *)
(* fit PATH_MAX), a symbolic link, a regular file and a missing path.      *)
(* Each invocation runs in a thread (an OS thread with its own lua_State); *)
(* Spec runs one thread (sequential calls), SpecConc runs two.             *)
(* lua_pushstring is modelled with a successful allocation; the allocator  *)
(* and the collector it may run are free to leave another value in errno.  *)
(***************************************************************************)
EXTENDS Integers, Sequences, FiniteSets, TLC

VARIABLES
    fs,        \* filesystem: status of each directory
    osCwd,     \* the process working directory (a directory, not a path)
    fsOps,     \* number of filesystem changes made by other processes so far
    buf,       \* static char buf[PATH_MAX], shared by every invocation
    nthreads,  \* number of threads that invoke the function
    pc,        \* per thread: position inside chdir_lua
    pathname,  \* per thread: argument 1
    cwd,       \* per thread: the pointer getcwd returned, "NULL" or "buf"
    kpath,     \* per thread: the path the kernel is copying into buf
    errno,     \* per thread: errno (thread-local in a threaded process)
    stack,     \* per thread: the Lua stack of the running call
    nret,      \* per thread: the C function's return value (number of results)
    callsLeft, \* per thread: calls the thread may still make (Unlimited: any number)
    obs,       \* per thread: what the OS calls of the running call did (history)
    last       \* per thread: the two most recently completed calls (history)

vars == <<fs, osCwd, fsOps, buf, nthreads, pc, pathname, cwd, kpath, errno,
          stack, nret, callsLeft, obs, last>>

----------------------------------------------------------------------------
(* Bounds *)

MaxFsOps == 2

\* Calls each thread makes when two threads run concurrently.
MaxConcCalls == 1

Unlimited == 0 - 1

Threads == {1, 2}

----------------------------------------------------------------------------
(* errno values (Linux numbering) *)

ENOENT == 2
ENOMEM == 12
EACCES == 13
ENOTDIR == 20
ERANGE == 34
ENAMETOOLONG == 36

Errnos == {ENOENT, ENOMEM, EACCES, ENOTDIR, ERANGE, ENAMETOOLONG}

----------------------------------------------------------------------------
(* The filesystem *)

Dirs == {"dA", "dB", "dS"}

\* dS is a directory below dA whose absolute path is PATH_MAX bytes or longer.
DeepDirs == {"dS"}

NoDir == "none"

\* The canonical absolute path of a directory.
AbsPath(d) ==
    CASE d = "dA" -> "/a"
      [] d = "dB" -> "/b"
      [] d = "dS" -> "/a/sub"

\* "/l" is a symbolic link to /b, "/f" a regular file, "/nx" does not exist,
\* "sub" and "." are relative.
Targets == {"/a", "/b", "/a/sub", "/l", "/f", "/nx", "sub", ".", ""}

\* The directory a path names when resolved from working directory c.
Resolve(p, c) ==
    CASE p = "/a" -> "dA"
      [] p = "/b" -> "dB"
      [] p = "/l" -> "dB"
      [] p = "." -> c
      [] p = "sub" /\ c = "dA" -> "dS"
      [] OTHER -> NoDir

\* errno of getcwd(buf, PATH_MAX) in working directory c, 0 when it succeeds.
GetcwdTooSmall(c, f) ==
    IF f[c] = "absent" THEN ENOENT
    ELSE IF c \in DeepDirs \/ c = "dA" THEN ERANGE
    ELSE 0

GetcwdErrno(c, f) ==
    IF f[c] = "absent" THEN ENOENT
    ELSE IF c \in DeepDirs THEN ERANGE
    ELSE 0

\* errno of chdir(p) in working directory c, 0 when it succeeds.
ChdirErrno(p, c, f) ==
    IF p = "" THEN ENOENT
    ELSE IF p = "/a/sub" THEN ENAMETOOLONG
    ELSE IF p = "/f" THEN ENOTDIR
    ELSE IF p \in {"sub", "."} /\ f[c] = "absent" THEN ENOENT
    ELSE IF p = "sub" /\ f[c] = "noperm" THEN EACCES
    ELSE IF Resolve(p, c) = NoDir THEN ENOENT
    ELSE IF f[Resolve(p, c)] = "absent" THEN ENOENT
    ELSE IF f[Resolve(p, c)] = "noperm" THEN EACCES
    ELSE 0

\* strerror(e): the message text of an error number.
StrError(e) ==
    CASE e = ENOENT -> "No such file or directory"
      [] e = ENOMEM -> "Cannot allocate memory"
      [] e = EACCES -> "Permission denied"
      [] e = ENOTDIR -> "Not a directory"
      [] e = ERANGE -> "Numerical result out of range"
      [] e = ENAMETOOLONG -> "File name too long"
      [] OTHER -> "Unknown error"

----------------------------------------------------------------------------
(* Lua values and the static buffer *)

Nil == [k |-> "nil", s |-> "", n |-> 0]
Str(x) == [k |-> "string", s |-> x, n |-> 0]
Num(i) == [k |-> "number", s |-> "", n |-> i]

\* buf while a getcwd is copying the path into it: a read sees any bytes.
Garbage == "?"

\* The strings a read of buf can yield.
BufStrings(b) == IF b = Garbage THEN Targets ELSE {b}

\* errno after a lua_pushstring that began with errno e.
PushStringErrnos(e) == {e, ENOMEM}

\* if (!cwd)
QueryFailed(c) == c = "NULL"

\* chdir(pathname) == 0
ChdirSucceededAlways(rc) == TRUE

ChdirSucceeded(rc) == rc = 0

\* return 1; / return 3;
RetSuccess == 1

RetFailureShort == 3 - 1

RetFailure == 3

\* The results of the call: the top nret values of the stack.
Results(t) ==
    SubSeq(stack[t], Len(stack[t]) - nret[t] + 1, Len(stack[t]))

\* History of the running call: the directory the query saw and the errno it
\* set, the directory chdir entered and the errno it set, the OS calls made in
\* order, and the working directory and buffer content when the call began.
NoObs == [qDir |-> NoDir, qErr |-> 0, cDir |-> NoDir, cErr |-> 0,
          order |-> <<>>, entryCwd |-> NoDir, entryBuf |-> ""]

\* History of the two calls completed last: the path the last call returned
\* ("" when it failed) and the working directory the call before it ended in
\* (NoDir when that call failed).
NoPath == ""

NoLast == [res |-> NoPath, post |-> NoDir, prevPost |-> NoDir]

Succeeded(t) == nret[t] = 1 /\ Len(stack[t]) >= 1 /\ stack[t][Len(stack[t])].k = "string"

----------------------------------------------------------------------------
(* Initial states *)

InitCommon ==
    /\ fs = [d \in Dirs |-> "dir"]
    /\ osCwd \in Dirs
    /\ fsOps = 0
    /\ buf = ""
    /\ pc = [t \in Threads |-> "idle"]
    /\ pathname = [t \in Threads |-> ""]
    /\ cwd = [t \in Threads |-> "NULL"]
    /\ kpath = [t \in Threads |-> ""]
    /\ errno = [t \in Threads |-> 0]
    /\ stack = [t \in Threads |-> <<>>]
    /\ nret = [t \in Threads |-> 0]
    /\ obs = [t \in Threads |-> NoObs]
    /\ last = [t \in Threads |-> NoLast]

Init ==
    /\ InitCommon
    /\ nthreads = 1
    /\ callsLeft = [t \in Threads |-> Unlimited]

InitConc ==
    /\ InitCommon
    /\ nthreads = 2
    /\ callsLeft = [t \in Threads |-> MaxConcCalls]

Running(t) == t <= nthreads

----------------------------------------------------------------------------
(* Other processes change the filesystem between calls *)

\* rm -r of a directory: the directory and what is below it disappear.
Remove(d) ==
    /\ fsOps < MaxFsOps
    /\ \A t \in Threads : pc[t] = "idle"
    /\ fs[d] # "absent"
    /\ fs' = [x \in Dirs |->
                IF x = d \/ (d = "dA" /\ x = "dS") THEN "absent" ELSE fs[x]]
    /\ fsOps' = fsOps + 1
    /\ UNCHANGED <<osCwd, buf, nthreads, pc, pathname, cwd, kpath, errno,
                   stack, nret, callsLeft, obs, last>>

\* chmod of a directory: search permission taken away or given back.
Chmod(d) ==
    /\ fsOps < MaxFsOps
    /\ \A t \in Threads : pc[t] = "idle"
    /\ fs[d] # "absent"
    /\ fs' = [fs EXCEPT ![d] = IF fs[d] = "dir" THEN "noperm" ELSE "dir"]
    /\ fsOps' = fsOps + 1
    /\ UNCHANGED <<osCwd, buf, nthreads, pc, pathname, cwd, kpath, errno,
                   stack, nret, callsLeft, obs, last>>

----------------------------------------------------------------------------
(* chdir_lua, statement by statement *)

\* The host calls the function: pathname = luaL_checkstring(L, 1).
Call(t, p) ==
    /\ Running(t)
    /\ pc[t] = "idle"
    /\ callsLeft[t] # 0
    /\ callsLeft' = [callsLeft EXCEPT ![t] =
                       IF @ = Unlimited THEN Unlimited ELSE @ - 1]
    /\ pathname' = [pathname EXCEPT ![t] = p]
    /\ stack' = [stack EXCEPT ![t] = <<Str(p)>>]
    /\ nret' = [nret EXCEPT ![t] = 0]
    /\ obs' = [obs EXCEPT ![t] =
                 [NoObs EXCEPT !.entryCwd = osCwd, !.entryBuf = buf]]
    /\ pc' = [pc EXCEPT ![t] = "getcwd"]
    /\ UNCHANGED <<fs, osCwd, fsOps, buf, nthreads, cwd, kpath, errno, last>>

\* cwd = getcwd(buf, PATH_MAX): the kernel builds the path. On failure errno
\* is set, NULL is returned and the content of buf is unspecified.
Getcwd(t) ==
    /\ pc[t] = "getcwd"
    /\ LET e == GetcwdErrno(osCwd, fs) IN
       IF e = 0
       THEN /\ kpath' = [kpath EXCEPT ![t] = AbsPath(osCwd)]
            /\ buf' = Garbage
            /\ obs' = [obs EXCEPT ![t].qDir = osCwd,
                                  ![t].order = Append(@, "query")]
            /\ pc' = [pc EXCEPT ![t] = "getcwd_copy"]
            /\ UNCHANGED <<errno, cwd>>
       ELSE /\ errno' = [errno EXCEPT ![t] = e]
            /\ cwd' = [cwd EXCEPT ![t] = "NULL"]
            /\ buf' \in {buf, Garbage}
            /\ obs' = [obs EXCEPT ![t].qErr = e,
                                  ![t].order = Append(@, "query")]
            /\ pc' = [pc EXCEPT ![t] = "test"]
            /\ UNCHANGED kpath
    /\ UNCHANGED <<fs, osCwd, fsOps, nthreads, pathname, stack, nret, callsLeft,
                   last>>

\* getcwd finishes copying the path into buf and returns buf.
GetcwdCopyStale(t) ==
    /\ pc[t] = "getcwd_copy"
    /\ buf' = IF obs[t].entryBuf \in {"", Garbage} THEN kpath[t]
              ELSE obs[t].entryBuf
    /\ cwd' = [cwd EXCEPT ![t] = "buf"]
    /\ pc' = [pc EXCEPT ![t] = "test"]
    /\ UNCHANGED <<fs, osCwd, fsOps, nthreads, pathname, kpath, errno, stack,
                   nret, callsLeft, obs, last>>

GetcwdCopy(t) ==
    /\ pc[t] = "getcwd_copy"
    /\ buf' = kpath[t]
    /\ cwd' = [cwd EXCEPT ![t] = "buf"]
    /\ pc' = [pc EXCEPT ![t] = "test"]
    /\ UNCHANGED <<fs, osCwd, fsOps, nthreads, pathname, kpath, errno, stack,
                   nret, callsLeft, obs, last>>

\* else if (chdir(pathname) == 0), reached when cwd is not NULL.
ChdirRetry(t) ==
    /\ pc[t] = "test"
    /\ ~QueryFailed(cwd[t])
    /\ LET e == ChdirErrno(pathname[t], osCwd, fs)
           rc == IF e = 0 THEN 0 ELSE -1
           d == Resolve(pathname[t], osCwd)
       IN /\ IF e = 0
             THEN /\ osCwd' = d
                  /\ obs' = [obs EXCEPT ![t].cDir = d,
                                        ![t].order = Append(@, "chdir")]
                  /\ UNCHANGED errno
             ELSE /\ errno' = [errno EXCEPT ![t] = e]
                  /\ obs' = [obs EXCEPT ![t].cErr = e,
                                        ![t].order = Append(@, "chdir")]
                  /\ UNCHANGED osCwd
          /\ pc' = [pc EXCEPT ![t] =
                      IF ChdirSucceeded(rc) THEN "push_cwd"
                      ELSE IF Len(obs[t].order) < 2 THEN "test"
                      ELSE "err_nil"]
    /\ UNCHANGED <<fs, fsOps, buf, nthreads, pathname, cwd, kpath, stack,
                   nret, callsLeft, last>>

\* The same with the query made after the change instead of before it.
ChdirThenQuery(t) ==
    /\ pc[t] = "test"
    /\ ~QueryFailed(cwd[t])
    /\ LET e == ChdirErrno(pathname[t], osCwd, fs)
           rc == IF e = 0 THEN 0 ELSE -1
           d == Resolve(pathname[t], osCwd)
       IN /\ IF e = 0
             THEN /\ osCwd' = d
                  /\ buf' = IF GetcwdErrno(d, fs) = 0 THEN AbsPath(d) ELSE buf
                  /\ obs' = [obs EXCEPT ![t].cDir = d,
                                        ![t].order = Append(@, "chdir")]
                  /\ UNCHANGED errno
             ELSE /\ errno' = [errno EXCEPT ![t] = e]
                  /\ obs' = [obs EXCEPT ![t].cErr = e,
                                        ![t].order = Append(@, "chdir")]
                  /\ UNCHANGED <<osCwd, buf>>
          /\ pc' = [pc EXCEPT ![t] =
                      IF ChdirSucceeded(rc) THEN "push_cwd" ELSE "err_nil"]
    /\ UNCHANGED <<fs, fsOps, nthreads, pathname, cwd, kpath, stack,
                   nret, callsLeft, last>>

Chdir(t) ==
    /\ pc[t] = "test"
    /\ ~QueryFailed(cwd[t])
    /\ LET e == ChdirErrno(pathname[t], osCwd, fs)
           rc == IF e = 0 THEN 0 ELSE -1
           d == Resolve(pathname[t], osCwd)
       IN /\ IF e = 0
             THEN /\ osCwd' = d
                  /\ obs' = [obs EXCEPT ![t].cDir = d,
                                        ![t].order = Append(@, "chdir")]
                  /\ UNCHANGED errno
             ELSE /\ errno' = [errno EXCEPT ![t] = e]
                  /\ obs' = [obs EXCEPT ![t].cErr = e,
                                        ![t].order = Append(@, "chdir")]
                  /\ UNCHANGED osCwd
          /\ pc' = [pc EXCEPT ![t] =
                      IF ChdirSucceeded(rc) THEN "push_cwd" ELSE "err_nil"]
    /\ UNCHANGED <<fs, fsOps, buf, nthreads, pathname, cwd, kpath, stack,
                   nret, callsLeft, last>>

\* lua_pushstring(L, cwd); return 1;  (lua_pushstring(L, NULL) pushes nil)
PushCwdNew(t) ==
    /\ pc[t] = "push_cwd"
    /\ stack' = [stack EXCEPT ![t] = Append(@, Str(pathname[t]))]
    /\ nret' = [nret EXCEPT ![t] = RetSuccess]
    /\ pc' = [pc EXCEPT ![t] = "done"]
    /\ UNCHANGED <<fs, osCwd, fsOps, buf, nthreads, pathname, cwd, kpath,
                   errno, callsLeft, obs, last>>

PushCwd(t) ==
    /\ pc[t] = "push_cwd"
    /\ \E s \in BufStrings(buf) :
          stack' = [stack EXCEPT ![t] =
                      Append(@, IF cwd[t] = "NULL" THEN Nil ELSE Str(s))]
    /\ nret' = [nret EXCEPT ![t] = RetSuccess]
    /\ pc' = [pc EXCEPT ![t] = "done"]
    /\ UNCHANGED <<fs, osCwd, fsOps, buf, nthreads, pathname, cwd, kpath,
                   errno, callsLeft, obs, last>>

\* lua_pushnil(L), in the if (!cwd) branch or after a failed chdir.
PushNil(t) ==
    /\ \/ pc[t] = "test" /\ QueryFailed(cwd[t])
       \/ pc[t] = "err_nil"
    /\ stack' = [stack EXCEPT ![t] = Append(@, Nil)]
    /\ pc' = [pc EXCEPT ![t] = "err_msg"]
    /\ UNCHANGED <<fs, osCwd, fsOps, buf, nthreads, pathname, cwd, kpath,
                   errno, nret, callsLeft, obs, last>>

\* lua_pushstring(L, strerror(errno)): the message of the current errno is
\* pushed; creating the Lua string allocates (and may run the collector), and
\* a library call that succeeds may still set errno: malloc leaves ENOMEM
\* when its first attempt failed and a second one succeeded.
PushMsg(t) ==
    /\ pc[t] = "err_msg"
    /\ stack' = [stack EXCEPT ![t] = Append(@, Str(StrError(errno[t])))]
    /\ \E e \in PushStringErrnos(errno[t]) : errno' = [errno EXCEPT ![t] = e]
    /\ pc' = [pc EXCEPT ![t] = "err_code"]
    /\ UNCHANGED <<fs, osCwd, fsOps, buf, nthreads, pathname, cwd, kpath,
                   nret, callsLeft, obs, last>>

\* lua_pushinteger(L, errno); return 3;
PushCode(t) ==
    /\ pc[t] = "err_code"
    /\ stack' = [stack EXCEPT ![t] = Append(@, Num(errno[t]))]
    /\ nret' = [nret EXCEPT ![t] = RetFailure]
    /\ pc' = [pc EXCEPT ![t] = "done"]
    /\ UNCHANGED <<fs, osCwd, fsOps, buf, nthreads, pathname, cwd, kpath,
                   errno, callsLeft, obs, last>>

\* The function has returned; the host takes the results off the stack.
Return(t) ==
    /\ pc[t] = "done"
    /\ last' = [last EXCEPT ![t] =
                  [res |-> IF Succeeded(t) THEN Results(t)[1].s ELSE NoPath,
                   post |-> IF Succeeded(t) THEN osCwd ELSE NoDir,
                   prevPost |-> last[t].post]]
    /\ pc' = [pc EXCEPT ![t] = "idle"]
    /\ pathname' = [pathname EXCEPT ![t] = ""]
    /\ cwd' = [cwd EXCEPT ![t] = "NULL"]
    /\ kpath' = [kpath EXCEPT ![t] = ""]
    /\ stack' = [stack EXCEPT ![t] = <<>>]
    /\ nret' = [nret EXCEPT ![t] = 0]
    /\ obs' = [obs EXCEPT ![t] = NoObs]
    /\ UNCHANGED <<fs, osCwd, fsOps, buf, nthreads, errno, callsLeft>>

Next ==
    \/ \E d \in Dirs : Remove(d)
    \/ \E d \in Dirs : Chmod(d)
    \/ \E t \in Threads, p \in Targets : Call(t, p)
    \/ \E t \in Threads : Getcwd(t)
    \/ \E t \in Threads : GetcwdCopy(t)
    \/ \E t \in Threads : Chdir(t)
    \/ \E t \in Threads : PushCwd(t)
    \/ \E t \in Threads : PushNil(t)
    \/ \E t \in Threads : PushMsg(t)
    \/ \E t \in Threads : PushCode(t)
    \/ \E t \in Threads : Return(t)

Spec == Init /\ [][Next]_vars

SpecConc == InitConc /\ [][Next]_vars

\* The statements of one thread's call, which run without waiting.
Step(t) ==
    \/ Getcwd(t)
    \/ GetcwdCopy(t)
    \/ Chdir(t)
    \/ PushCwd(t)
    \/ PushNil(t)
    \/ PushMsg(t)
    \/ PushCode(t)

\* Sequential calls whose statements are always eventually executed.
SpecLive == Init /\ [][Next]_vars /\ WF_vars(Step(1))

----------------------------------------------------------------------------
(* Vocabulary of the properties *)

Done(t) == Running(t) /\ pc[t] = "done"

SuccessForm(r) == Len(r) = 1 /\ r[1].k = "string"

FailureForm(r) ==
    /\ Len(r) = 3
    /\ r[1] = Nil
    /\ r[2].k = "string"
    /\ r[3].k = "number"

\* The working directory c can be queried.
Queryable(c) == GetcwdErrno(c, fs) = 0

\* The path p, given in working directory c, names an accessible directory.
TargetAccessible(p, c) == ChdirErrno(p, c, fs) = 0

\* Directory d is accessible by its own path.
Accessible(d) == d \in Dirs /\ ChdirErrno(AbsPath(d), d, fs) = 0

\* The errno set by the OS call that failed in the running call.
FailedErrno(t) == IF obs[t].qErr # 0 THEN obs[t].qErr ELSE obs[t].cErr

\* What a call with target p, made in working directory c with the
\* filesystem as it is, may return and where it leaves the process.
ExpectedResults(p, c) ==
    LET q == GetcwdErrno(c, fs)
        x == ChdirErrno(p, c, fs)
        e == IF q # 0 THEN q ELSE x
    IN IF e = 0 THEN {<<Str(AbsPath(c))>>}
       ELSE {<<Nil, Str(StrError(e)), Num(n)>> : n \in PushStringErrnos(e)}

ExpectedCwd(p, c) ==
    IF GetcwdErrno(c, fs) = 0 /\ ChdirErrno(p, c, fs) = 0
    THEN Resolve(p, c) ELSE c

----------------------------------------------------------------------------
(* Properties *)

\* C1: a call whose target names an accessible directory D, made in a working
\* directory C that can be queried, returns the single value C (its path) and
\* leaves the process in D.
C1_SuccessPath ==
    \A t \in Threads :
        (Done(t) /\ Queryable(obs[t].entryCwd)
                 /\ TargetAccessible(pathname[t], obs[t].entryCwd))
        => /\ Results(t) = <<Str(AbsPath(obs[t].entryCwd))>>
           /\ osCwd = Resolve(pathname[t], obs[t].entryCwd)

C1_Witness ==
    \E t \in Threads :
        /\ Done(t) /\ Queryable(obs[t].entryCwd)
        /\ TargetAccessible(pathname[t], obs[t].entryCwd)
        /\ osCwd # obs[t].entryCwd

\* C2: when the working directory can be queried and the OS refuses the
\* change, the call returns nil, a non-empty message and a nonzero code, and
\* the working directory is the one before the call.
C2_TransitionFailure ==
    \A t \in Threads :
        (Done(t) /\ Queryable(obs[t].entryCwd)
                 /\ ~TargetAccessible(pathname[t], obs[t].entryCwd))
        => /\ FailureForm(Results(t))
           /\ Results(t)[2].s # ""
           /\ Results(t)[3].n # 0
           /\ osCwd = obs[t].entryCwd

C2_Witness ==
    \E t \in Threads :
        /\ Done(t) /\ Queryable(obs[t].entryCwd)
        /\ ChdirErrno(pathname[t], obs[t].entryCwd, fs) = EACCES
        /\ FailureForm(Results(t))

\* C3: when the query of the working directory fails, the call returns the
\* failure form carrying the error of the query (its message and its code),
\* no change of directory is attempted and the working directory is the one
\* before the call.
C3_QueryFailureAborts ==
    \A t \in Threads :
        (Done(t) /\ ~Queryable(obs[t].entryCwd))
        => /\ Results(t) =
                <<Nil, Str(StrError(GetcwdErrno(obs[t].entryCwd, fs))),
                  Num(GetcwdErrno(obs[t].entryCwd, fs))>>
           /\ obs[t].order = <<"query">>
           /\ osCwd = obs[t].entryCwd

\* C4: a call that has returned has produced either exactly one value, the
\* path of a directory, or exactly three values: nil, an error message and a
\* number; never a path together with a message or a code.
C4_NoPartialResult ==
    \A t \in Threads :
        Done(t) =>
            \/ /\ nret[t] = 1
               /\ SuccessForm(Results(t))
               /\ Results(t)[1].s \in {AbsPath(d) : d \in Dirs}
            \/ /\ nret[t] = 3
               /\ FailureForm(Results(t))
               /\ Results(t)[2].s \in {StrError(e) : e \in Errnos}

C4_Witness ==
    \E t \in Threads : Done(t) /\ nret[t] = 3 /\ FailureForm(Results(t))

C6_ChangeToCurrent ==
    \A t \in Threads :
        (/\ Done(t)
         /\ Resolve(pathname[t], obs[t].entryCwd) = obs[t].entryCwd
         /\ Accessible(obs[t].entryCwd))
        => /\ Results(t) = <<Str(AbsPath(obs[t].entryCwd))>>
           /\ osCwd = obs[t].entryCwd
           /\ (last[t].post = obs[t].entryCwd /\ last[t].prevPost = last[t].post)
                 => Results(t)[1].s = last[t].res

C6_Witness ==
    \E t \in Threads :
        /\ Done(t)
        /\ Resolve(pathname[t], obs[t].entryCwd) = obs[t].entryCwd
        /\ Accessible(obs[t].entryCwd)
        /\ last[t].post = obs[t].entryCwd
        /\ last[t].prevPost = last[t].post
        /\ Results(t) = <<Str(last[t].res)>>

\* C7: in every failure result the code is the errno set by the OS call that
\* failed and the message is the message of that same errno.
C7_MessageAndCodeAgree ==
    \A t \in Threads :
        (Done(t) /\ FailureForm(Results(t)))
        => /\ Results(t)[3].n = FailedErrno(t)
           /\ Results(t)[2].s = StrError(FailedErrno(t))

\* C8: the results of a call and the working directory after it are those
\* fixed by the target path, the working directory and the filesystem at the
\* call, whatever an earlier call left in the static buffer.
C8_NoStateAcrossCalls ==
    \A t \in Threads :
        Done(t) =>
            /\ Results(t) \in ExpectedResults(pathname[t], obs[t].entryCwd)
            /\ osCwd = ExpectedCwd(pathname[t], obs[t].entryCwd)

C8_Witness ==
    \E t \in Threads :
        /\ Done(t)
        /\ SuccessForm(Results(t))
        /\ obs[t].entryBuf \notin {"", Garbage}
        /\ obs[t].entryBuf # Results(t)[1].s

\* The OS calls of a call are one query, or one query and then one change
\* attempt made after getcwd returned buf; a call in progress is never blocked.
C9_Attempts ==
    \A t \in Threads :
        /\ obs[t].order \in {<<>>, <<"query">>, <<"query", "chdir">>}
        /\ Done(t) => Len(obs[t].order) >= 1
        /\ (Len(obs[t].order) = 2) => (obs[t].qErr = 0 /\ cwd[t] = "buf")
        /\ (Running(t) /\ pc[t] \notin {"idle", "done"}) => ENABLED Step(t)

\* C9: a call makes exactly one query and at most one change attempt, the
\* attempt only after the query succeeded, nothing is retried, and every call
\* that began returns.
C9_SingleAttempt ==
    /\ []C9_Attempts
    /\ \A t \in {1} : (pc[t] = "getcwd") ~> (pc[t] = "done")

C9_Witness ==
    \E t \in Threads :
        /\ Done(t)
        /\ obs[t].order = <<"query", "chdir">>
        /\ obs[t].cErr # 0

\* C10: with calls running concurrently, a call that succeeds returns the
\* path of the working directory its own query observed.
C10_OwnQueryReturned ==
    \A t \in Threads :
        (Done(t) /\ SuccessForm(Results(t)))
        => Results(t)[1].s = AbsPath(obs[t].qDir)

====
